---- MODULE Spec2Model ----
(***************************************************************************)
(* State-machine model of baselines/ddpg/ddpg.py: the episode runner       *)
(* (run_episode), the rollout loop (run_policy) and the training           *)
(* orchestrator (train).  The environment, the replay buffer and the DDPG  *)
(* agent are the collaborators train() drives; their calls are steps of    *)
(* the machine.                                                            *)
(*                                                                         *)
(* Floats are modelled by integers.  Actions, observations and rewards are *)
(* whole numbers of units of 1.0; obs_step counts units of 1e-3.  NaN is a *)
(* separate value that no comparison accepts.                              *)
(***************************************************************************)
EXTENDS Integers, Sequences, FiniteSets, TLC

VARIABLES
    cfg,        \* the arguments of train(): start_episodes, num_episodes, batch_size, eval_freq
    env,        \* the environment gym.make(env_name) returned
    actorOut,   \* the values the actor (plus exploration noise) can put in an action dimension
    pc,         \* position in train / run_policy / run_episode
    agent,      \* the DDPG agent: constructed, number of hard target copies, number of updates
    buffer,     \* replay_buffer: the stored transitions, oldest first
    tr,         \* locals of train()
    rp,         \* frame of the run_policy() call in progress
    ep,         \* frame of the run_episode() call in progress
    records,    \* the tabular records dumped by the logger, oldest first
    hist        \* call counters observed from outside (not program state)

vars == <<cfg, env, actorOut, pc, agent, buffer, tr, rp, ep, records, hist>>

----------------------------------------------------------------------------
(* Bounds of the model *)
MaxLen   == 2     \* longest episode an environment allows
MaxStart == 1     \* largest start_episodes
MaxNum   == 3     \* largest num_episodes
MaxEval  == 2     \* largest eval_freq
MaxBatch == 2     \* largest batch_size
MaxRollouts == 3  \* most random and train episodes of a run whose episode lengths vary
MaxRunEps == 2    \* largest `episodes` of a direct run_policy call

(* Float values *)
NaN == -999                    \* stands for a float NaN; never compared by < or >
Big == 100                     \* a magnitude far outside the action range (up to +-inf)
IsNaN(x) == x = NaN

\* np.clip(x, lo, hi) on one element: minimum(maximum(x, lo), hi), NaN propagates
ClipValNoUpper(x, lo, hi) == IF IsNaN(x) THEN NaN ELSE IF x < lo THEN lo ELSE x
ClipVal(x, lo, hi) ==
    IF IsNaN(x) THEN NaN
    ELSE IF x < lo THEN lo
    ELSE IF x > hi THEN hi
    ELSE x

\* np.clip(action, -1.0, 1.0): elementwise over the action vector
Clip(a) == [k \in DOMAIN a |-> ClipVal(a[k], -1, 1)]

\* np.append(obs, obs_step): the time step feature becomes the last component
AppendTime(o, t) == Append(o, t)

\* float(done)
DoneBoolNegated(d) == IF d THEN 0 ELSE 1
DoneBool(d) == IF d THEN 1 ELSE 0

\* "if mode != 'test'" : which rollouts are stored
StoreAlways(mode) == TRUE
StoreRandomOnly(mode) == mode = "random"
StoreTrainOnly(mode) == mode = "train"
ShouldStore(mode) == mode # "test"

\* assert (mode in ["train", "test", "random"])
Modes == {"train", "test", "random"}

\* lines 101-106: the call that yields the action, by mode
ActionCallAllExplore(mode) ==
    IF mode \in {"train", "test"} THEN "select_action(True)" ELSE "action_space_sample"
ActionCall(mode) ==
    IF mode = "train" THEN "select_action(True)"
    ELSE IF mode = "test" THEN "select_action(False)"
    ELSE "action_space_sample"

\* "while not done": whether the loop of run_episode makes another pass
OnePassOnly(done) == FALSE
LoopAgain(done) == ~done

\* the action handed to replay_buffer.add (line 118)
StoredRawAction(e) == e.raw
StoredAction(e) == e.action

\* obs_step += 1e-3, in units of 1e-3
TimeIncTwice == 1 + 1
TimeInc == 1

\* num_test_episodes = 10
NumTestEpisodesFive == 10 \div 2
NumTestEpisodes == 10

RECURSIVE SumSeq(_)
SumSeq(s) == IF s = <<>> THEN 0 ELSE Head(s) + SumSeq(Tail(s))

RECURSIVE SumSq(_)
SumSq(s) == IF s = <<>> THEN 0 ELSE Head(s) * Head(s) + SumSq(Tail(s))

\* np.mean(returns) as the fraction sum / n, kept as the pair <<sum, n>>
Mean(s) == <<SumSeq(s), Len(s)>>

\* np.std(returns): the variance (n * sum x^2 - (sum x)^2) / n^2, kept as the
\* pair <<numerator, denominator>>; the std is its square root
Std(s) == <<Len(s) * SumSq(s) - SumSeq(s) * SumSeq(s), Len(s) * Len(s)>>

----------------------------------------------------------------------------
(* Frames *)
NoEpisode == [obs |-> <<>>, done |-> FALSE, obs_step |-> 0, episode_return |-> 0,
              episode_length |-> 0, current_obs |-> <<>>, raw |-> <<>>, action |-> <<>>]

NoRollout == [mode |-> "none", episodes |-> 0, e |-> 0, total_steps |-> 0,
              returns |-> <<>>, retpc |-> "none"]

NoTrain == [num_iteration |-> 0, current_episodes |-> 0, current_steps |-> 0,
            iter |-> 0, i |-> 0, total_steps |-> 0,
            num_epoch |-> 0, epoch |-> 0, batch |-> <<>>]

NoHist == [align |-> 0, selected |-> FALSE, explore |-> 0, stepped |-> FALSE,
           roll_steps |-> 0, adds |-> 0, samples |-> 0,
           updates |-> 0, random_eps |-> 0, train_eps |-> 0, test_eps |-> 0,
           eval_at |-> <<>>, mark |-> <<0, 0, 0>>,
           blk_train_eps |-> 0, blk_blocks |-> 0, blk_test_eps |-> 0,
           cur_eps |-> 0, cur_steps |-> 0, cur_samples |-> 0, cur_updates |-> 0,
           train_steps |-> 0, ep_rewards |-> <<>>,
           rp_returns |-> <<>>, rp_steps |-> 0, rp_modes |-> {},
           last |-> "none"]

----------------------------------------------------------------------------
(* The collaborators *)

\* env.step's done flag at the n-th step of an episode: the environment ends
\* the episode at its horizon at the latest, and an environment with early
\* termination may end it at any step before
DoneVals(v, n) ==
    IF n >= v.horizon THEN {TRUE}
    ELSE IF v.early THEN {TRUE, FALSE}
    ELSE {FALSE}

\* env.action_space.sample(): one value of the action space per dimension
ActionSpaceSample(v) == [1..v.actDim -> v.actVals]

\* agent.select_action(obs, explore): the actor's output, plus Gaussian noise
\* when explore is true; one value per action dimension, not clipped
SelectActionVals(v, out) == [1..v.actDim -> out]

\* replay_buffer.add(obs, action, next_obs, reward, done): appends one transition
Add(store, o, a, no, r, d) ==
    Append(store, [obs |-> o, action |-> a, next_obs |-> no, reward |-> r, done |-> d])

\* replay_buffer.sample(): a batch of SampleSize transitions, each drawn from
\* the transitions stored now, with replacement
SampleSize == 1
SampleBatches(store) == [1..SampleSize -> {store[k] : k \in 1..Len(store)}]

----------------------------------------------------------------------------
(* Initial states: train() is entered with its arguments; nothing exists yet *)
InitWith(c, v, out) ==
    /\ cfg = c
    /\ env = v
    /\ actorOut = out
    /\ pc = "create_agent"
    /\ agent = [constructed |-> FALSE, aligned |-> 0, updates |-> 0]
    /\ buffer = <<>>
    /\ tr = NoTrain
    /\ rp = NoRollout
    /\ ep = NoEpisode
    /\ records = <<>>
    /\ hist = NoHist

Cfgs == [start_episodes : 0..MaxStart, num_episodes : 0..MaxNum,
         batch_size : 1..MaxBatch, eval_freq : 1..MaxEval]

\* the end-to-end scenario: the defaults of parse_arguments with num_episodes = 20
E2ECfg == [start_episodes |-> 10, num_episodes |-> 20, batch_size |-> 1, eval_freq |-> 10]

\* environments with one observation, one reward and one action value
PlainEnvs == [horizon : 1..MaxLen, early : BOOLEAN, obsVals : {{0}}, rewVals : {{0}},
              actVals : {{2}}, actDim : {1}]

\* environments whose episodes all last exactly `horizon` steps
FixedEnvs == {v \in PlainEnvs : ~v.early}

\* the environment that may end an episode at any step up to the longest horizon
EarlyEnvs == {v \in PlainEnvs : v.early /\ v.horizon = MaxLen}

\* the arguments under which train runs at most MaxRollouts random and train episodes
ShortCfgs ==
    {c \in Cfgs : c.start_episodes
                    + (c.num_episodes \div c.eval_freq) * c.eval_freq * c.batch_size
                  <= MaxRollouts}

InitE2E == \E v \in FixedEnvs : InitWith(E2ECfg, v, {0})

Init ==
    \/ \E c \in Cfgs, v \in FixedEnvs : InitWith(c, v, {0})
    \/ \E c \in ShortCfgs, v \in EarlyEnvs : InitWith(c, v, {0})
    \/ InitE2E

\* one warm-up episode, one train episode and one evaluation, with actions of
\* every kind: the action space reaches beyond [-1, 1], and the actor with its
\* noise emits values inside the range, on its edge, outside it, of huge
\* magnitude, and NaN (diverged parameters)
ActCfg == [start_episodes |-> 1, num_episodes |-> 1, batch_size |-> 1, eval_freq |-> 1]
ActorVals == {NaN, -Big, 0, 1, 2}
ActEnvs ==
    [horizon : 1..MaxLen, early : {FALSE}, obsVals : {{0}}, rewVals : {{0}},
     actVals : {{-2, 0, 1}}, actDim : {1}]
    \cup
    [horizon : {1}, early : {FALSE}, obsVals : {{0}}, rewVals : {{0}},
     actVals : {{-2, 0, 1}}, actDim : {2}]

InitAct == \E v \in ActEnvs : InitWith(ActCfg, v, ActorVals)

(* run_policy called on its own: the agent is built and aligned, the replay
   buffer is empty, and the caller passes any mode and episode count *)
NoCfg == [start_episodes |-> 0, num_episodes |-> 0, batch_size |-> 1, eval_freq |-> 1]

RunInit(mode, episodes, v, out) ==
    /\ cfg = NoCfg
    /\ env = v
    /\ actorOut = out
    /\ pc = "rp_loop"
    /\ agent = [constructed |-> TRUE, aligned |-> 1, updates |-> 0]
    /\ buffer = <<>>
    /\ tr = NoTrain
    /\ rp = [mode |-> mode, episodes |-> episodes, e |-> 0, total_steps |-> 0,
             returns |-> <<>>, retpc |-> "returned"]
    /\ ep = NoEpisode
    /\ records = <<>>
    /\ hist = NoHist

\* the environment of varying episode length with two rewards
RewardEnv == [horizon |-> MaxLen, early |-> TRUE, obsVals |-> {0}, rewVals |-> {0, 1},
              actVals |-> {2}, actDim |-> 1]

\* the environment of varying episode length with two observations
ObsEnv == [horizon |-> MaxLen, early |-> TRUE, obsVals |-> {0, 1}, rewVals |-> {0},
           actVals |-> {2}, actDim |-> 1]

\* the environment with two observations and an action space beyond [-1, 1]
DataEnv == [horizon |-> MaxLen, early |-> TRUE, obsVals |-> {0, 1}, rewVals |-> {0},
            actVals |-> {-2, 0, 1}, actDim |-> 1]

InitRun ==
    \/ \E m \in Modes \cup {"other"}, n \in 0..MaxRunEps : RunInit(m, n, RewardEnv, {0})
    \/ \E m \in Modes, n \in 0..MaxRunEps : RunInit(m, n, ObsEnv, {0})
    \/ \E m \in Modes : RunInit(m, 1, DataEnv, ActorVals)

----------------------------------------------------------------------------
(* run_policy and run_episode *)

\* run_policy(env, agent, replay_buffer, mode, episodes): lines 124-125
CallRunPolicy(mode, episodes, retpc) ==
    /\ rp' = [mode |-> mode, episodes |-> episodes, e |-> 0, total_steps |-> 0,
              returns |-> <<>>, retpc |-> retpc]
    /\ pc' = "rp_loop"

\* for e in range(episodes): run_episode is entered; lines 91-96
EpisodeReset ==
    /\ pc = "rp_loop"
    /\ rp.e < rp.episodes
    /\ rp.mode \in Modes
    /\ \E o \in env.obsVals :
         ep' = [NoEpisode EXCEPT !.obs = <<o>>]
    /\ pc' = "ep_select"
    /\ hist' = [hist EXCEPT !.last = "reset", !.ep_rewards = <<>>]
    /\ UNCHANGED <<cfg, env, actorOut, agent, buffer, tr, rp, records>>

\* line 91: the assert fails on any other mode, before env.reset()
ModeRejected ==
    /\ pc = "rp_loop"
    /\ rp.e < rp.episodes
    /\ rp.mode \notin Modes
    /\ pc' = "assert_failed"
    /\ UNCHANGED <<cfg, env, actorOut, agent, buffer, tr, rp, ep, records, hist>>

\* lines 98-107: augment the observation, pick the action by mode, clip it
SelectAction ==
    /\ pc = "ep_select"
    /\ LET obs == AppendTime(ep.obs, ep.obs_step)
           raws == IF ActionCall(rp.mode) = "action_space_sample"
                   THEN ActionSpaceSample(env)
                   ELSE SelectActionVals(env, actorOut)
       IN \E raw \in raws :
            ep' = [ep EXCEPT !.obs = obs, !.current_obs = obs,
                             !.raw = raw, !.action = Clip(raw)]
    /\ hist' = [hist EXCEPT
                  !.selected = @ \/ ActionCall(rp.mode) # "action_space_sample",
                  !.explore = IF ActionCall(rp.mode) = "select_action(True)"
                              THEN @ + 1 ELSE @,
                  !.last = ActionCall(rp.mode)]
    /\ pc' = "ep_step"
    /\ UNCHANGED <<cfg, env, actorOut, agent, buffer, tr, rp, records>>

\* lines 108-118 with next_obs given the time feature of before the increment
EnvStepStaleTime ==
    /\ pc = "ep_step"
    /\ \E o \in env.obsVals, reward \in env.rewVals,
          done \in DoneVals(env, ep.episode_length + 1) :
         LET obs_step == ep.obs_step + TimeInc
             next_obs == AppendTime(<<o>>, ep.obs_step)
         IN /\ ep' = [ep EXCEPT !.obs = <<o>>, !.done = done,
                                !.episode_return = @ + reward,
                                !.obs_step = obs_step,
                                !.episode_length = @ + 1]
            /\ buffer' = IF ShouldStore(rp.mode)
                         THEN Add(buffer, ep.current_obs, StoredAction(ep), next_obs,
                                  reward, DoneBool(done))
                         ELSE buffer
            /\ pc' = IF LoopAgain(done) THEN "ep_select" ELSE "ep_return"
            /\ hist' = [hist EXCEPT
                  !.stepped = TRUE,
                  !.ep_rewards = Append(@, reward),
                  !.rp_steps = @ + 1,
                  !.train_steps = IF rp.mode = "train" THEN @ + 1 ELSE @,
                  !.roll_steps = IF rp.mode \in {"random", "train"} THEN @ + 1 ELSE @,
                  !.cur_steps = IF rp.mode = "train" THEN @ + 1 ELSE @,
                  !.adds = IF ShouldStore(rp.mode) THEN @ + 1 ELSE @,
                  !.last = IF ShouldStore(rp.mode) THEN "add" ELSE "step"]
    /\ UNCHANGED <<cfg, env, actorOut, agent, tr, rp, records>>

\* lines 108-118 and the loop test of line 97: step the environment, account
\* the step, store the transition unless testing
EnvStep ==
    /\ pc = "ep_step"
    /\ \E o \in env.obsVals, reward \in env.rewVals,
          done \in DoneVals(env, ep.episode_length + 1) :
         LET obs_step == ep.obs_step + TimeInc
             next_obs == AppendTime(<<o>>, obs_step)
         IN /\ ep' = [ep EXCEPT !.obs = <<o>>, !.done = done,
                                !.episode_return = @ + reward,
                                !.obs_step = obs_step,
                                !.episode_length = @ + 1]
            /\ buffer' = IF ShouldStore(rp.mode)
                         THEN Add(buffer, ep.current_obs, StoredAction(ep), next_obs,
                                  reward, DoneBool(done))
                         ELSE buffer
            /\ pc' = IF LoopAgain(done) THEN "ep_select" ELSE "ep_return"
            /\ hist' = [hist EXCEPT
                  !.stepped = TRUE,
                  !.ep_rewards = Append(@, reward),
                  !.rp_steps = @ + 1,
                  !.train_steps = IF rp.mode = "train" THEN @ + 1 ELSE @,
                  !.roll_steps = IF rp.mode \in {"random", "train"} THEN @ + 1 ELSE @,
                  !.cur_steps = IF rp.mode = "train" THEN @ + 1 ELSE @,
                  !.adds = IF ShouldStore(rp.mode) THEN @ + 1 ELSE @,
                  !.last = IF ShouldStore(rp.mode) THEN "add" ELSE "step"]
    /\ UNCHANGED <<cfg, env, actorOut, agent, tr, rp, records>>

\* lines 127-129 with the return put in front of the list instead of appended
EpisodeReturnPrepend ==
    /\ pc = "ep_return"
    /\ rp' = [rp EXCEPT !.total_steps = @ + ep.episode_length,
                        !.returns = <<ep.episode_return>> \o @,
                        !.e = @ + 1]
    /\ ep' = NoEpisode
    /\ pc' = "rp_loop"
    /\ hist' = [hist EXCEPT
                  !.random_eps = IF rp.mode = "random" THEN @ + 1 ELSE @,
                  !.train_eps = IF rp.mode = "train" THEN @ + 1 ELSE @,
                  !.test_eps = IF rp.mode = "test" THEN @ + 1 ELSE @,
                  !.blk_train_eps = IF rp.mode = "train" THEN @ + 1 ELSE @,
                  !.cur_eps = IF rp.mode = "train" THEN @ + 1 ELSE @,
                  !.blk_test_eps = IF rp.mode = "test" THEN @ + 1 ELSE @,
                  !.rp_returns = Append(@, SumSeq(hist.ep_rewards)),
                  !.rp_modes = @ \cup {rp.mode},
                  !.ep_rewards = <<>>]
    /\ UNCHANGED <<cfg, env, actorOut, agent, buffer, tr, records>>

\* line 119 and lines 127-129: the episode returns, run_policy accumulates
EpisodeReturn ==
    /\ pc = "ep_return"
    /\ rp' = [rp EXCEPT !.total_steps = @ + ep.episode_length,
                        !.returns = Append(@, ep.episode_return),
                        !.e = @ + 1]
    /\ ep' = NoEpisode
    /\ pc' = "rp_loop"
    /\ hist' = [hist EXCEPT
                  !.random_eps = IF rp.mode = "random" THEN @ + 1 ELSE @,
                  !.train_eps = IF rp.mode = "train" THEN @ + 1 ELSE @,
                  !.test_eps = IF rp.mode = "test" THEN @ + 1 ELSE @,
                  !.blk_train_eps = IF rp.mode = "train" THEN @ + 1 ELSE @,
                  !.cur_eps = IF rp.mode = "train" THEN @ + 1 ELSE @,
                  !.blk_test_eps = IF rp.mode = "test" THEN @ + 1 ELSE @,
                  !.rp_returns = Append(@, SumSeq(hist.ep_rewards)),
                  !.rp_modes = @ \cup {rp.mode},
                  !.ep_rewards = <<>>]
    /\ UNCHANGED <<cfg, env, actorOut, agent, buffer, tr, records>>

\* line 130: the loop is exhausted, (returns, total_steps) go back to the caller
RunPolicyReturn ==
    /\ pc = "rp_loop"
    /\ rp.e >= rp.episodes
    /\ pc' = rp.retpc
    /\ UNCHANGED <<cfg, env, actorOut, agent, buffer, tr, rp, ep, records, hist>>

----------------------------------------------------------------------------
(* train *)

\* num_iteration = num_episodes // eval_freq
NumIterationCeil(num_episodes, eval_freq) == (num_episodes + eval_freq - 1) \div eval_freq
NumIterationUpTo(num_episodes, eval_freq) == (num_episodes - 1) \div eval_freq
NumIteration(num_episodes, eval_freq) == num_episodes \div eval_freq

\* num_epoch = total_steps // batch_size
NumEpochPerStep(total_steps, batch_size) == total_steps
NumEpoch(total_steps, batch_size) == total_steps \div batch_size

\* lines 151-166: the environment, the four networks and the agent are built
CreateAgent ==
    /\ pc = "create_agent"
    /\ agent' = [agent EXCEPT !.constructed = TRUE]
    /\ pc' = "align_target"
    /\ hist' = [hist EXCEPT !.last = "create_agent"]
    /\ UNCHANGED <<cfg, env, actorOut, buffer, tr, rp, ep, records>>

\* line 167 left out: the targets are never aligned
AlignTargetSkipped ==
    /\ pc = "align_target"
    /\ pc' = "create_buffer"
    /\ UNCHANGED <<cfg, env, actorOut, agent, buffer, tr, rp, ep, records, hist>>

\* line 167: agent.align_target()
AlignTarget ==
    /\ pc = "align_target"
    /\ agent' = [agent EXCEPT !.aligned = @ + 1]
    /\ pc' = "create_buffer"
    /\ hist' = [hist EXCEPT !.align = @ + 1, !.last = "align_target"]
    /\ UNCHANGED <<cfg, env, actorOut, buffer, tr, rp, ep, records>>

\* line 170: replay_buffer = ReplayBuffer()
CreateReplayBuffer ==
    /\ pc = "create_buffer"
    /\ buffer' = <<>>
    /\ pc' = "warmup"
    /\ hist' = [hist EXCEPT !.last = "create_buffer"]
    /\ UNCHANGED <<cfg, env, actorOut, agent, tr, rp, ep, records>>

\* line 172 without its mode argument: run_policy's default mode is "train"
WarmupDefaultMode ==
    /\ pc = "warmup"
    /\ CallRunPolicy("train", cfg.start_episodes, "train_init")
    /\ UNCHANGED <<cfg, env, actorOut, agent, buffer, tr, ep, records, hist>>

\* line 172: run_policy(mode="random", episodes=start_episodes)
Warmup ==
    /\ pc = "warmup"
    /\ CallRunPolicy("random", cfg.start_episodes, "train_init")
    /\ UNCHANGED <<cfg, env, actorOut, agent, buffer, tr, ep, records, hist>>

\* lines 174-176 with the counters started from the warm-up's episodes and steps
TrainInitCountWarmup ==
    /\ pc = "train_init"
    /\ tr' = [NoTrain EXCEPT
                !.num_iteration = NumIteration(cfg.num_episodes, cfg.eval_freq),
                !.current_episodes = rp.episodes,
                !.current_steps = rp.total_steps]
    /\ rp' = NoRollout
    /\ pc' = "iter_loop"
    /\ hist' = [hist EXCEPT !.rp_returns = <<>>, !.rp_steps = 0, !.rp_modes = {}]
    /\ UNCHANGED <<cfg, env, actorOut, agent, buffer, ep, records>>

\* lines 174-176, the warm-up's result is dropped
TrainInit ==
    /\ pc = "train_init"
    /\ tr' = [NoTrain EXCEPT
                !.num_iteration = NumIteration(cfg.num_episodes, cfg.eval_freq)]
    /\ rp' = NoRollout
    /\ pc' = "iter_loop"
    /\ hist' = [hist EXCEPT !.rp_returns = <<>>, !.rp_steps = 0, !.rp_modes = {}]
    /\ UNCHANGED <<cfg, env, actorOut, agent, buffer, ep, records>>

\* line 177: for iter in range(num_iteration), one more iteration
IterNext ==
    /\ pc = "iter_loop"
    /\ tr.iter < tr.num_iteration
    /\ tr' = [tr EXCEPT !.i = 0]
    /\ pc' = "block_loop"
    /\ UNCHANGED <<cfg, env, actorOut, agent, buffer, rp, ep, records, hist>>

\* line 177: the range is exhausted, train returns
Finish ==
    /\ pc = "iter_loop"
    /\ tr.iter >= tr.num_iteration
    /\ pc' = "done"
    /\ UNCHANGED <<cfg, env, actorOut, agent, buffer, tr, rp, ep, records, hist>>

\* lines 179-181: for i in range(eval_freq), collect batch_size train episodes
CollectBlock ==
    /\ pc = "block_loop"
    /\ tr.i < cfg.eval_freq
    /\ CallRunPolicy("train", cfg.batch_size, "block_account")
    /\ hist' = [hist EXCEPT !.cur_eps = 0, !.cur_steps = 0, !.cur_samples = 0,
                            !.cur_updates = 0]
    /\ UNCHANGED <<cfg, env, actorOut, agent, buffer, tr, ep, records>>

\* lines 181-186: the rollout's result is bound, the counters advance
\* (line 184 only logs the mean and std of the train returns)
BlockAccount ==
    /\ pc = "block_account"
    /\ LET total_steps == rp.total_steps
       IN tr' = [tr EXCEPT !.total_steps = total_steps,
                           !.current_episodes = @ + cfg.batch_size,
                           !.current_steps = @ + total_steps,
                           !.num_epoch = NumEpoch(total_steps, cfg.batch_size),
                           !.epoch = 0]
    /\ rp' = NoRollout
    /\ pc' = "epoch_loop"
    /\ hist' = [hist EXCEPT !.rp_returns = <<>>, !.rp_steps = 0, !.rp_modes = {}]
    /\ UNCHANGED <<cfg, env, actorOut, agent, buffer, ep, records>>

\* lines 187-188: for e in range(num_epoch), replay_buffer.sample();
\* sampling an empty store fails and the run aborts
Sample ==
    /\ pc = "epoch_loop"
    /\ tr.epoch < tr.num_epoch
    /\ IF Len(buffer) = 0
       THEN /\ pc' = "failed"
            /\ UNCHANGED tr
       ELSE /\ \E b \in SampleBatches(buffer) : tr' = [tr EXCEPT !.batch = b]
            /\ pc' = "update"
    /\ hist' = [hist EXCEPT !.samples = @ + 1, !.cur_samples = @ + 1, !.last = "sample"]
    /\ UNCHANGED <<cfg, env, actorOut, agent, buffer, rp, ep, records>>

\* line 189: agent.update(observation, action, reward, next_obs, done); the
\* batch is dead afterwards
Update ==
    /\ pc = "update"
    /\ agent' = [agent EXCEPT !.updates = @ + 1]
    /\ tr' = [tr EXCEPT !.epoch = @ + 1, !.batch = <<>>]
    /\ pc' = "epoch_loop"
    /\ hist' = [hist EXCEPT !.updates = @ + 1, !.cur_updates = @ + 1, !.last = "update"]
    /\ UNCHANGED <<cfg, env, actorOut, buffer, rp, ep, records>>

\* line 187: the range is exhausted, the training block is over
EpochDone ==
    /\ pc = "epoch_loop"
    /\ tr.epoch >= tr.num_epoch
    /\ tr' = [tr EXCEPT !.i = @ + 1]
    /\ pc' = "block_loop"
    /\ hist' = [hist EXCEPT !.blk_blocks = @ + 1]
    /\ UNCHANGED <<cfg, env, actorOut, agent, buffer, rp, ep, records>>

\* lines 190-192: the inner range is exhausted, run the test episodes
Evaluate ==
    /\ pc = "block_loop"
    /\ tr.i >= cfg.eval_freq
    /\ CallRunPolicy("test", NumTestEpisodes, "record")
    /\ hist' = [hist EXCEPT !.eval_at = Append(@, hist.train_eps),
                            !.mark = <<hist.adds, hist.samples, hist.updates>>]
    /\ UNCHANGED <<cfg, env, actorOut, agent, buffer, tr, ep, records>>

\* lines 192-200: the returns are averaged and the tabular record is dumped
Record ==
    /\ pc = "record"
    /\ LET returns == rp.returns
       IN records' = Append(records,
                        [iteration |-> tr.iter,
                         episodes |-> tr.current_episodes,
                         steps |-> tr.current_steps,
                         avg_return |-> Mean(returns),
                         std_return |-> Std(returns)])
    /\ tr' = [tr EXCEPT !.iter = @ + 1]
    /\ rp' = NoRollout
    /\ pc' = "iter_loop"
    /\ hist' = [hist EXCEPT !.blk_train_eps = 0, !.blk_blocks = 0, !.blk_test_eps = 0,
                            !.rp_returns = <<>>, !.rp_steps = 0, !.rp_modes = {},
                            !.last = "record"]
    /\ UNCHANGED <<cfg, env, actorOut, agent, buffer, ep>>

----------------------------------------------------------------------------
Next ==
    \/ CreateAgent
    \/ AlignTarget
    \/ CreateReplayBuffer
    \/ Warmup
    \/ EpisodeReset
    \/ SelectAction
    \/ EnvStep
    \/ EpisodeReturn
    \/ RunPolicyReturn
    \/ TrainInit
    \/ IterNext
    \/ CollectBlock
    \/ BlockAccount
    \/ Sample
    \/ Update
    \/ EpochDone
    \/ Evaluate
    \/ Record
    \/ Finish

Spec == Init /\ [][Next]_vars

\* run_policy called on its own
NextRun ==
    \/ EpisodeReset
    \/ ModeRejected
    \/ SelectAction
    \/ EnvStep
    \/ EpisodeReturn
    \/ RunPolicyReturn

SpecRun == InitRun /\ [][NextRun]_vars

\* train with a sequential scheduler: a statement that can run does run.  On
\* top of the runs of Spec: warm-up only runs over the environment with two
\* rewards, and a run of one train episode and one evaluation over a one-step
\* environment with two rewards
WarmCfgs == {c \in Cfgs : c.num_episodes = 0 /\ c.batch_size = 1 /\ c.eval_freq = 1}
OneCfg == [start_episodes |-> 0, num_episodes |-> 1, batch_size |-> 1, eval_freq |-> 1]
OneStepRewardEnv == [horizon |-> 1, early |-> FALSE, obsVals |-> {0}, rewVals |-> {0, 1},
                     actVals |-> {2}, actDim |-> 1]

InitLive ==
    \/ Init
    \/ \E c \in WarmCfgs : InitWith(c, RewardEnv, {0})
    \/ InitWith(OneCfg, OneStepRewardEnv, {0})

SpecLive == InitLive /\ [][Next]_vars /\ WF_vars(Next)

\* the end-to-end scenario alone
SpecE2E == InitE2E /\ [][Next]_vars

\* the action scenarios alone
SpecAct == InitAct /\ [][Next]_vars

----------------------------------------------------------------------------
(* Properties *)

\* replay_buffer.sample() is the next call
SampleDue == pc = "epoch_loop" /\ tr.epoch < tr.num_epoch

\* C1: whenever replay_buffer.sample() is about to be called the replay store
\* holds at least one transition, also with start_episodes = 0; no run aborts
\* on an empty store.
C1_SampleOnNonEmptyStore ==
    /\ SampleDue => Len(buffer) >= 1
    /\ pc # "failed"

\* a run without warm-up has made its first sample() call
C1_Witness ==
    /\ cfg.start_episodes = 0
    /\ pc = "update"
    /\ hist.samples = 1
    /\ Len(tr.batch) = SampleSize

\* C2: no step taken while a test rollout is in progress changes the replay
\* store or calls add, so the store after an evaluation block is the store
\* before it; every environment step of a random or train episode appends
\* exactly one transition.
C2_TestNeverStores ==
    [][/\ rp.mode = "test" => (buffer' = buffer /\ hist'.adds = hist.adds)
       /\ (pc = "ep_step" /\ rp.mode \in {"random", "train"}) =>
             /\ Len(buffer') = Len(buffer) + 1
             /\ SubSeq(buffer', 1, Len(buffer)) = buffer
             /\ hist'.adds = hist.adds + 1]_vars

\* an evaluation block of 10 episodes has ended over a store that holds
\* transitions of a random and of a train episode
C2_Witness ==
    /\ pc = "record"
    /\ hist.blk_test_eps = 10
    /\ hist.random_eps >= 1
    /\ hist.train_eps >= 1
    /\ Len(buffer) = hist.roll_steps
    /\ Len(buffer) >= 2

\* a float lies in [-1.0, 1.0]
InRange(x) == ~IsNaN(x) /\ x >= -1 /\ x <= 1

\* C3 as claimed: every action passed to env.step lies within [-1, 1] in every
\* dimension, whatever the raw action was.
C3_Original ==
    pc = "ep_step" => \A k \in DOMAIN ep.action : InRange(ep.action[k])

\* C3 as amended: every component of the action passed to env.step lies within
\* [-1, 1] unless the raw component was NaN, which np.clip hands through; in
\* random mode every component is in range.
C3_ClippedUnlessNaN ==
    pc = "ep_step" =>
        /\ DOMAIN ep.action = 1..env.actDim
        /\ \A k \in DOMAIN ep.action :
             IF IsNaN(ep.raw[k]) THEN IsNaN(ep.action[k]) ELSE InRange(ep.action[k])
        /\ rp.mode = "random" => \A k \in DOMAIN ep.action : InRange(ep.action[k])

\* a train step whose raw action is out of range on both sides, in two dimensions
C3_Witness ==
    /\ pc = "ep_step"
    /\ rp.mode = "train"
    /\ ep.raw = <<-Big, 2>>
    /\ ep.action = <<-1, 1>>

\* the time step feature of an augmented observation: its last component
TimeOf(o) == o[Len(o)]

\* C4: in every stored transition the time feature of next_observation is the
\* one of observation plus one increment; the first transition of an episode
\* has observation time feature 0 and every later one continues from its
\* predecessor, so the k-th transition carries k increments and k + 1.
C4_TimeFeature ==
    \A j \in 1..Len(buffer) :
        /\ TimeOf(buffer[j].next_obs) = TimeOf(buffer[j].obs) + 1
        /\ (j = 1 \/ buffer[j - 1].done = 1) => TimeOf(buffer[j].obs) = 0
        /\ (j > 1 /\ buffer[j - 1].done = 0) =>
               TimeOf(buffer[j].obs) = TimeOf(buffer[j - 1].obs) + 1

\* the store holds a two-step episode followed by the first step of the next one
C4_Witness ==
    /\ Len(buffer) >= 3
    /\ buffer[1].done = 0
    /\ TimeOf(buffer[2].obs) = 1
    /\ TimeOf(buffer[2].next_obs) = 2
    /\ buffer[2].done = 1
    /\ TimeOf(buffer[3].obs) = 0

\* C5: the updates of a training block start only when all batch_size train
\* episodes of the block are collected; the block makes exactly
\* floor(total_steps / batch_size) update calls, total_steps counting the
\* steps of this block only; every update follows its own sample() call
\* directly and is fed its batch; from the first sample to the last update of
\* the block no transition is added and no environment step is taken.
C5_CollectThenUpdate ==
    [][/\ pc' \in {"epoch_loop", "update"} =>
             /\ hist'.cur_eps = cfg.batch_size
             /\ tr'.total_steps = hist'.cur_steps
       /\ (pc = "epoch_loop" /\ pc' = "block_loop") =>
             /\ hist.cur_updates = hist.cur_steps \div cfg.batch_size
             /\ hist.cur_samples = hist.cur_updates
       /\ (pc = "epoch_loop" /\ hist'.samples # hist.samples) => pc' = "update"
       /\ pc = "update" =>
             /\ hist.last = "sample"
             /\ tr.batch \in SampleBatches(buffer)
             /\ hist'.cur_updates = hist.cur_updates + 1
       /\ (pc = "update" \/ (SampleDue /\ hist.cur_samples > 0)) =>
             /\ pc' \in {"epoch_loop", "update"}
             /\ buffer' = buffer
             /\ hist'.adds = hist.adds
             /\ hist'.roll_steps = hist.roll_steps]_vars

\* after a warm-up episode, a block of a run with batch_size = 2 collected 3
\* steps in its two episodes and made 1 update
C5_Witness ==
    /\ pc = "block_loop"
    /\ cfg.batch_size = 2
    /\ hist.random_eps = 1
    /\ hist.train_eps = 2
    /\ hist.cur_steps = 3
    /\ hist.cur_samples = 1
    /\ hist.cur_updates = 1

\* C6: the records carry iteration 0, 1, 2, ... in order, their episodes and
\* steps fields never decrease from one record to the next, and a finished
\* run has emitted floor(num_episodes / eval_freq) records: 2 of them in the
\* end-to-end scenario.
C6_Records ==
    /\ \A k \in 1..Len(records) : records[k].iteration = k - 1
    /\ \A k \in 1..(Len(records) - 1) :
          /\ records[k].episodes <= records[k + 1].episodes
          /\ records[k].steps <= records[k + 1].steps
    /\ pc = "done" => Len(records) = cfg.num_episodes \div cfg.eval_freq
    /\ (pc = "done" /\ cfg = E2ECfg) => Len(records) = 2

\* the end-to-end run is over with records 0 and 1
C6_Witness ==
    /\ pc = "done"
    /\ cfg = E2ECfg
    /\ Len(records) = 2
    /\ records[1].iteration = 0
    /\ records[2].iteration = 1

\* C7 as claimed: the end-to-end run performs exactly 1 evaluation block of 10
\* test episodes, after exactly 10 training episodes.
C7_Original ==
    pc = "done" => (hist.eval_at = <<10>> /\ hist.test_eps = 10)

\* C7 as amended: the end-to-end run performs exactly 2 evaluation blocks of 10
\* test episodes each, the first after exactly 10 training episodes and the
\* second after exactly 20.
C7_TwoEvaluationBlocks ==
    /\ Len(hist.eval_at) >= 1 => hist.eval_at[1] = 10
    /\ rp.mode = "test" => hist.test_eps + rp.episodes - rp.e = 10 * Len(hist.eval_at)
    /\ pc = "done" =>
          /\ hist.eval_at = <<10, 20>>
          /\ hist.test_eps = 20
          /\ hist.train_eps = 20

\* the end-to-end run is over after its second evaluation block
C7_Witness ==
    /\ pc = "done"
    /\ cfg = E2ECfg
    /\ hist.eval_at = <<10, 20>>
    /\ hist.test_eps = 20

\* C8: a finished run has executed at most num_episodes train-mode episodes.
C8_AtMostNumEpisodes ==
    pc = "done" =>
        /\ tr.current_episodes <= cfg.num_episodes
        /\ hist.train_eps <= cfg.num_episodes

\* C9: a record is emitted right after an evaluation block of exactly 10 test
\* episodes, which started after exactly eval_freq training blocks, that is
\* eval_freq * batch_size train episodes, since the previous record or the
\* warm-up; from the start of the evaluation block to the record there is no
\* update, sample or add call.
C9_RecordAfterEvaluation ==
    [][/\ Len(records') # Len(records) =>
             /\ Len(records') = Len(records) + 1
             /\ hist.last = "step"
             /\ hist.blk_test_eps = 10
             /\ hist.blk_blocks = cfg.eval_freq
             /\ hist.blk_train_eps = cfg.eval_freq * cfg.batch_size
             /\ hist.eval_at[Len(hist.eval_at)] = hist.train_eps
             /\ Len(hist.eval_at) = Len(records) + 1
             /\ hist.mark = <<hist.adds, hist.samples, hist.updates>>
       /\ rp.retpc = "record" =>
             /\ hist'.adds = hist.adds
             /\ hist'.samples = hist.samples
             /\ hist'.updates = hist.updates
             /\ buffer' = buffer]_vars

\* the second record of a run with batch_size = 2 has just been emitted
C9_Witness ==
    /\ hist.last = "record"
    /\ Len(records) = 2
    /\ cfg.batch_size = 2
    /\ hist.train_eps = 4
    /\ hist.test_eps = 20

\* C10: align_target is called once, as the first call after the agent is
\* constructed, before any environment step, select_action or update, and
\* never again.
C10_AlignOnce ==
    [][/\ hist'.align # hist.align =>
             /\ hist.align = 0
             /\ hist'.align = 1
             /\ hist.last = "create_agent"
             /\ ~hist.stepped /\ ~hist.selected /\ hist.updates = 0
       /\ hist.last = "create_agent" => hist'.align = 1
       /\ (hist'.stepped \/ hist'.selected \/ hist'.updates > 0) => hist'.align = 1
       /\ pc' = "done" => (hist'.align = 1 /\ agent'.aligned = 1)]_vars

\* a run with steps, actions of the agent and updates is over
C10_Witness ==
    /\ pc = "done"
    /\ hist.align = 1
    /\ agent.aligned = 1
    /\ hist.stepped /\ hist.selected
    /\ hist.updates >= 2

\* training has started: a train or test rollout was called, or an update made
TrainingStarted ==
    \/ rp.mode \in {"train", "test"}
    \/ hist.train_eps > 0
    \/ hist.test_eps > 0
    \/ hist.explore > 0
    \/ hist.updates > 0
    \/ pc \in {"iter_loop", "block_loop", "block_account", "epoch_loop",
               "update", "record", "done"}

\* C11: once training has started exactly start_episodes random episodes are
\* complete and none follows; while the warm-up runs there has been no train
\* episode, no update and no select_action call.
C11_WarmupFirst ==
    /\ hist.random_eps <= cfg.start_episodes
    /\ TrainingStarted => (hist.random_eps = cfg.start_episodes /\ rp.mode # "random")
    /\ rp.mode = "random" =>
          /\ ~hist.selected
          /\ hist.explore = 0
          /\ hist.train_eps = 0
          /\ hist.test_eps = 0
          /\ hist.updates = 0
          /\ hist.samples = 0
          /\ pc = "ep_step" => hist.last = "action_space_sample"

\* a run with a warm-up episode, train episodes and updates is over
C11_Witness ==
    /\ pc = "done"
    /\ cfg.start_episodes = 1
    /\ hist.random_eps = 1
    /\ hist.train_eps >= 2
    /\ hist.updates >= 1

\* C12: the call that produced the action of every step is fixed by the mode:
\* select_action with explore = true in "train", with explore = false in "test",
\* action_space.sample() without any call of the agent in "random"; with any
\* other mode run_episode fails before env.reset() and takes no step.
C12_ActionSourceByMode ==
    /\ pc = "ep_step" =>
          /\ rp.mode = "train" =>
                (hist.last = "select_action(True)" /\ ep.raw \in SelectActionVals(env, actorOut))
          /\ rp.mode = "test" =>
                (hist.last = "select_action(False)" /\ ep.raw \in SelectActionVals(env, actorOut))
          /\ rp.mode = "random" =>
                (hist.last = "action_space_sample" /\ ep.raw \in ActionSpaceSample(env))
    /\ rp.mode = "train" => hist.explore = hist.rp_steps + (IF pc = "ep_step" THEN 1 ELSE 0)
    /\ rp.mode = "test" => (hist.explore = 0 /\ (hist.stepped => hist.selected))
    /\ rp.mode = "random" => (hist.explore = 0 /\ ~hist.selected)
    /\ pc \in {"ep_select", "ep_step", "ep_return"} => rp.mode \in {"train", "test", "random"}
    /\ rp.mode \notin {"train", "test", "random"} =>
          /\ hist.last = "none"
          /\ ~hist.stepped
          /\ ep = NoEpisode
          /\ rp.episodes >= 1 => pc \in {"rp_loop", "assert_failed"}

\* the second step of a test episode is about to be taken
C12_Witness ==
    /\ pc = "ep_step"
    /\ rp.mode = "test"
    /\ ep.episode_length = 1
    /\ hist.last = "select_action(False)"
    /\ hist.explore = 0

\* C13: run_episode steps the environment once per loop pass, never steps
\* after done was signalled and returns only then, with the sum of the rewards
\* of its steps and their number; train ends, and only after exactly its
\* configured warm-up, train and test episodes.
C13_Safe ==
    /\ pc \in {"ep_select", "ep_step"} => ~ep.done
    /\ pc \in {"ep_select", "ep_step", "ep_return"} =>
          /\ ep.episode_length = Len(hist.ep_rewards)
          /\ ep.episode_return = SumSeq(hist.ep_rewards)
          /\ ep.episode_length <= env.horizon
    /\ pc = "ep_return" => (ep.done /\ ep.episode_length >= 1)
    /\ pc # "failed"
    /\ pc = "done" =>
          /\ hist.random_eps = cfg.start_episodes
          /\ hist.train_eps = (cfg.num_episodes \div cfg.eval_freq) * cfg.eval_freq * cfg.batch_size
          /\ hist.test_eps = (cfg.num_episodes \div cfg.eval_freq) * 10

\* C13: the stopping conditions above hold in every state and train terminates
C13_StopsOnDone == [](C13_Safe) /\ <>(pc = "done")

\* a run is over whose ten test episodes returned rewards summing to 3
C13_Witness ==
    /\ pc = "done"
    /\ hist.train_eps = 1
    /\ hist.test_eps = 10
    /\ Len(records) = 1
    /\ records[1].avg_return = <<3, 10>>

\* C14: when run_policy(mode, episodes) returns it has run exactly `episodes`
\* episodes, all in the given mode; returns holds their returns in the order
\* they ran and total_steps is the number of steps of all of them; with
\* episodes = 0 nothing ran, returns is empty and total_steps is 0.
C14_RunPolicyResult ==
    /\ rp.mode # "none" =>
          /\ rp.e = Len(hist.rp_returns)
          /\ rp.e <= rp.episodes
          /\ hist.rp_modes \subseteq {rp.mode}
          /\ hist.random_eps + hist.train_eps + hist.test_eps = rp.e
    /\ pc = "returned" =>
          /\ rp.e = rp.episodes
          /\ Len(rp.returns) = rp.episodes
          /\ rp.returns = hist.rp_returns
          /\ rp.total_steps = hist.rp_steps
          /\ rp.episodes = 0 =>
                (rp.returns = <<>> /\ rp.total_steps = 0 /\ hist.last = "none")

\* a call with episodes = 2 returned <<1, 0>> and 3 steps
C14_Witness ==
    /\ pc = "returned"
    /\ rp.episodes = 2
    /\ rp.returns = <<1, 0>>
    /\ rp.total_steps = 3

\* C15: in the non-test modes every environment step is followed by exactly
\* one replay_buffer.add, of the transition of that step, and a test-mode step
\* by none; so the number of transitions added since the start of the run is
\* the number of environment steps of the random-mode and train-mode episodes.
C15_Counts ==
    /\ hist.adds = hist.roll_steps
    /\ Len(buffer) = hist.adds

C15_StepAdds ==
    (pc = "ep_step" /\ pc' # "ep_step") =>
        IF rp.mode = "test"
        THEN buffer' = buffer
        ELSE /\ Len(buffer') = Len(buffer) + 1
             /\ SubSeq(buffer', 1, Len(buffer)) = buffer
             /\ buffer'[Len(buffer')].obs[Len(ep.current_obs)] = ep.obs_step
             /\ buffer'[Len(buffer')].next_obs[Len(ep.current_obs)] = ep'.obs_step
             /\ ep'.episode_length = ep.episode_length + 1

\* C15: one add per non-test step, in step order, and the counts agree
C15_OneAddPerStep == [](C15_Counts) /\ [][C15_StepAdds]_vars

\* a finished run with warm-up, train and test episodes: only the steps of the
\* first two kinds are in the store
C15_Witness ==
    /\ pc = "done"
    /\ hist.random_eps >= 1
    /\ hist.train_eps >= 1
    /\ hist.test_eps >= 1
    /\ hist.stepped
    /\ Len(buffer) = hist.roll_steps
    /\ Len(buffer) >= 3

\* C16: the action of a stored transition is the clipped action that env.step
\* was called with at that step (the clip of what the agent or the action
\* space gave, not that raw value), and its observation is the augmented
\* observation the action was selected from.
C16_Select ==
    (pc = "ep_select" /\ pc' = "ep_step") =>
        /\ ep'.current_obs = AppendTime(ep.obs, ep.obs_step)
        /\ ep'.action = Clip(ep'.raw)

C16_Store ==
    (pc = "ep_step" /\ pc' # "ep_step" /\ rp.mode # "test") =>
        LET t == buffer'[Len(buffer')]
        IN /\ Len(buffer') = Len(buffer) + 1
           /\ t.action = ep.action
           /\ t.action = Clip(ep.raw)
           /\ t.obs = ep.current_obs
           /\ t.obs[Len(t.obs)] = ep.obs_step

\* C16: both steps above hold along every run
C16_StoredActionAndObs == [][C16_Select /\ C16_Store]_vars

\* the actor gave 2 on observation 1, and the transition holds 1 and <<1, 0>>
C16_Witness ==
    /\ pc = "ep_return"
    /\ rp.mode = "train"
    /\ ep.raw = <<2>>
    /\ Len(buffer) = 1
    /\ buffer[1].action = <<1>>
    /\ buffer[1].obs = <<1, 0>>

\* the transitions the running episode has stored so far (non-test modes)
CurrentEpisodeStored ==
    SubSeq(buffer, Len(buffer) - ep.episode_length + 1, Len(buffer))

\* C17: an episode that returns has taken at least one environment step; of the
\* transitions a non-test episode stores, the last one has done = 1 and every
\* earlier one has done = 0, so the store holds one done = 1 per finished episode.
C17_DoneOnlyOnLast ==
    /\ pc = "ep_return" => ep.episode_length >= 1
    /\ (rp.mode \in {"train", "random"} /\ pc \in {"ep_select", "ep_step", "ep_return"}) =>
          /\ Len(buffer) >= ep.episode_length
          /\ \A k \in 1..ep.episode_length :
                CurrentEpisodeStored[k].done =
                    (IF pc = "ep_return" /\ k = ep.episode_length THEN 1 ELSE 0)
    /\ (rp.mode \in {"train", "random"} /\ pc \in {"rp_loop", "returned"}) =>
          /\ Len(buffer) >= rp.e
          /\ Len(buffer) > 0 => buffer[Len(buffer)].done = 1
    /\ rp.mode \in {"train", "random"} =>
          Cardinality({k \in 1..Len(buffer) : buffer[k].done = 1})
              = rp.e + (IF pc = "ep_return" THEN 1 ELSE 0)

\* a one-step episode was followed by a two-step episode
C17_Witness ==
    /\ pc = "ep_return"
    /\ rp.mode = "random"
    /\ rp.e = 1
    /\ ep.episode_length = 2
    /\ Len(buffer) = 3
    /\ buffer[1].done = 1
    /\ buffer[2].done = 0
    /\ buffer[3].done = 1

\* C18: a stored transition with done = 0 is followed in the store by the
\* transition of the next step of the same episode, whose observation is its
\* next_observation, environment part and time feature alike; a transition with
\* done = 1 is followed by the first transition of another episode, whose
\* observation has time feature 0 and so is not that next_observation; every
\* transition spans one step of one episode.
C18_Chained ==
    /\ \A k \in 1..Len(buffer) :
          LET t == buffer[k]
              n == Len(t.obs)
          IN /\ Len(t.next_obs) = n
             /\ t.next_obs[n] = t.obs[n] + TimeInc
             /\ (k = 1 \/ buffer[k - 1].done = 1) => t.obs[n] = 0
    /\ \A k \in 1..(Len(buffer) - 1) :
          IF buffer[k].done = 0
          THEN buffer[k + 1].obs = buffer[k].next_obs
          ELSE buffer[k + 1].obs # buffer[k].next_obs
    /\ (rp.mode \in {"train", "random"} /\ pc \in {"ep_select", "ep_step"}
          /\ ep.episode_length > 0) =>
          AppendTime(IF pc = "ep_select" THEN ep.obs ELSE SubSeq(ep.obs, 1, Len(ep.obs) - 1),
                     ep.obs_step)
              = buffer[Len(buffer)].next_obs

\* a two-step episode then the first step of the next one, which starts from the
\* same environment observation the first episode ended on
C18_Witness ==
    /\ rp.mode = "train"
    /\ Len(buffer) = 3
    /\ buffer[1].obs = <<0, 0>>
    /\ buffer[1].next_obs = <<1, 1>>
    /\ buffer[2].obs = <<1, 1>>
    /\ buffer[2].next_obs = <<0, 2>>
    /\ buffer[2].done = 1
    /\ buffer[3].obs = <<0, 0>>

\* C19: the record of iteration i has episodes = (i + 1) * eval_freq * batch_size,
\* the number of train-mode episodes run so far, and steps = the number of
\* environment steps of those train-mode episodes; the steps and episodes of
\* the warm-up and of the evaluations are in neither field.
C19_RecordCountsTrainOnly ==
    /\ \A k \in 1..Len(records) :
          /\ records[k].episodes = k * cfg.eval_freq * cfg.batch_size
          /\ records[k].steps >= records[k].episodes
          /\ records[k].steps <= records[k].episodes * env.horizon
          /\ ~env.early => records[k].steps = records[k].episodes * env.horizon
    /\ (pc \in {"iter_loop", "done"} /\ Len(records) > 0) =>
          /\ records[Len(records)].episodes = hist.train_eps
          /\ records[Len(records)].steps = hist.train_steps
          /\ hist.roll_steps - records[Len(records)].steps >= hist.random_eps

\* after a warm-up episode and ten test episodes the first record counts the
\* two train episodes and their three steps, of the four steps stored
C19_Witness ==
    /\ pc = "iter_loop"
    /\ Len(records) = 1
    /\ hist.random_eps = 1
    /\ hist.test_eps = 10
    /\ records[1].episodes = 2
    /\ records[1].steps = 3
    /\ Len(buffer) = 4

====
